---- MODULE Spec2Model ----
(***************************************************************************)
(* Chain-state core of go-nebulas (core/blockchain.go): genesis and tail   *)
(* tracking, block admission, the tail switch with its reorganisation      *)
(* walk, the common-ancestor search and the canonical-chain traversals.    *)
(*                                                                         *)
(* A block is identified by its hash, a number of 0..MaxBlock; block 0 is  *)
(* the genesis block.  The blocks that peers may present form a tree,      *)
(* fixed at start-up in parentOf.  A *Block pointer of the Go code is the  *)
(* hash of the block it points to, or NilBlock.                            *)
(***************************************************************************)
EXTENDS Integers, Sequences, FiniteSets, TLC

\* ---------------------------------------------------------------- bounds
\* Number of non-genesis blocks the environment can present.
MaxBlock == 3
\* Capacity of cachedBlocks (lru.New(1024) in the code), scaled down.
CacheCap == 1
\* Capacity of detachedTailBlocks (lru.New(64) in the code), scaled down.
DetachedCap == 1
\* Longest allBlocks list of one PutVerifiedNewBlocks call.
MaxBatch == 2
\* Longest tailBlocks list of one PutVerifiedNewBlocks call.
MaxTips == 1
\* Largest n of FetchDescendantInCanonicalChain and count of Dump.
MaxN == 2
\* Number of Put calls the store fails in one run.
MaxFailures == 1

\* ------------------------------------------------------------- constants
GenesisHash == 0
NilBlock == 0 - 1
NoHash == 0 - 2
\* number of ancestors walked for the tail-hash fingerprint
FingerprintDepth == 6
\* hashToInt64 parses the last four hex digits of the hash
HexSuffixRange == 65536

Blocks == 0..MaxBlock
NewBlocks == 1..MaxBlock
NoValue == <<>>

VARIABLES
    parentOf,            \* the block tree: parent hash of every non-genesis block
    storage,             \* durable store: block hash -> serialized block or NoValue
    storedTail,          \* durable store: value under the Tail key, or NoHash
    cachedBlocks,        \* LRU of block hashes, most recently used first
    detachedTailBlocks,  \* LRU of block hashes, most recently used first
    genesisBlock,        \* bc.genesisBlock
    tailBlock,           \* bc.tailBlock
    pc,                  \* position of the writer inside SetTailBlock
    st,                  \* locals of the SetTailBlock call that is running or
                         \* was the writer's last operation
    returned,            \* the ReturnTransactions calls of that call, in order
    metrics,             \* the metric updates of that call, in order
    last,                \* the writer's last operation and how it ended
    failures             \* the Put calls the store has failed so far

vars == <<parentOf, storage, storedTail, cachedBlocks, detachedTailBlocks,
          genesisBlock, tailBlock, pc, st, returned, metrics, last, failures>>

\* ------------------------------------------------------------ the blocks
\* block.ParentHash(): the genesis block carries a sentinel parent.
ParentHash(b) == IF b = GenesisHash THEN NoHash ELSE parentOf[b]

RECURSIVE Height(_)
\* block.Height(): height(child) = height(parent) + 1, genesis at 0.
Height(b) == IF b = GenesisHash THEN 0 ELSE 1 + Height(parentOf[b])

\* CheckGenesisBlock(block)
CheckGenesisBlock(b) == b = GenesisHash

\* block.ToProto + proto.Marshal: the bytes written under the block's hash.
Serialize(b) == <<b, ParentHash(b), Height(b)>>

\* proto.Unmarshal + block.FromProto: the block whose bytes these are.
Deserialize(v) == v[1]

\* ------------------------------------------------------- the LRU caches
SeqToSet(s) == {s[i] : i \in 1..Len(s)}

LruContains(c, k) == k \in SeqToSet(c)

LruRemove(c, k) == SelectSeq(c, LAMBDA x : x # k)

\* lru.Cache.Add: the entry becomes the most recent; the oldest is evicted.
LruAdd(c, k, cap) ==
    LET c2 == <<k>> \o LruRemove(c, k)
    IN  IF Len(c2) > cap THEN SubSeq(c2, 1, cap) ELSE c2

\* lru.Cache.ContainsOrAdd: no recency update when the key is present.
LruContainsOrAdd(c, k, cap) == IF LruContains(c, k) THEN c ELSE LruAdd(c, k, cap)

\* lru.Cache.Get: a hit moves the entry to the front.
LruGet(c, k) == IF LruContains(c, k) THEN <<k>> \o LruRemove(c, k) ELSE c

\* ------------------------------------------------------------ retrieval
\* LoadBlockFromStorage: the block stored under hash, NilBlock on any error.
LoadBlockFromStorage(sto, hash) ==
    IF hash \in DOMAIN sto /\ sto[hash] # NoValue
    THEN Deserialize(sto[hash])
    ELSE NilBlock

\* GetBlock looking in the cache only.
GetBlockCacheOnly(cache, hash) ==
    IF LruContains(cache, hash)
    THEN [blk |-> hash, cache |-> LruGet(cache, hash)]
    ELSE [blk |-> NilBlock, cache |-> cache]

\* GetBlock adding the block it loaded from the store to the cache.
GetBlockCachesLoaded(cache, hash) ==
    IF LruContains(cache, hash)
    THEN [blk |-> hash, cache |-> LruGet(cache, hash)]
    ELSE LET b == LoadBlockFromStorage(storage, hash)
         IN  [blk |-> b, cache |-> IF b = NilBlock THEN cache ELSE LruAdd(cache, b, CacheCap)]

\* GetBlock: the cache first, then the store; a loaded block is not cached.
\* Returns the block and the cache after the lookup.
GetBlock(cache, hash) ==
    IF LruContains(cache, hash)
    THEN [blk |-> hash, cache |-> LruGet(cache, hash)]
    ELSE [blk |-> LoadBlockFromStorage(storage, hash), cache |-> cache]

\* ----------------------------------------------- common ancestor search
RECURSIVE LevelTail(_, _, _)
\* for tail.Height() > target.Height() { tail = bc.GetBlock(tail.parentHash) }
\* A nil tail is dereferenced by the next tail.Height(): the process panics.
LevelTail(cache, tail, target) ==
    IF tail = NilBlock THEN [kind |-> "panic", tail |-> tail, target |-> target, cache |-> cache]
    ELSE IF Height(tail) > Height(target)
         THEN LET g == GetBlock(cache, ParentHash(tail))
              IN  LevelTail(g.cache, g.blk, target)
         ELSE [kind |-> "ok", tail |-> tail, target |-> target, cache |-> cache]

RECURSIVE LevelTarget(_, _, _)
\* for tail.Height() < target.Height() { target = bc.GetBlock(target.parentHash) }
LevelTarget(cache, tail, target) ==
    IF target = NilBlock THEN [kind |-> "panic", tail |-> tail, target |-> target, cache |-> cache]
    ELSE IF Height(tail) < Height(target)
         THEN LET g == GetBlock(cache, ParentHash(target))
              IN  LevelTarget(g.cache, tail, g.blk)
         ELSE [kind |-> "ok", tail |-> tail, target |-> target, cache |-> cache]

\* LockStep with the lock-step loop left out: once the heights are equal
\* the target is returned as it stands.
LockStepNoWalk(cache, tail, target) ==
    [kind |-> "ok", tail |-> tail, target |-> target, cache |-> cache]

RECURSIVE LockStep(_, _, _)
\* for !tail.Hash().Equals(target.Hash()) { both step to their parents;
\*     panic when either parent is missing }
LockStep(cache, tail, target) ==
    IF tail = target THEN [kind |-> "ok", tail |-> tail, target |-> target, cache |-> cache]
    ELSE LET g1 == GetBlock(cache, ParentHash(tail))
             g2 == GetBlock(g1.cache, ParentHash(target))
         IN  IF g1.blk = NilBlock \/ g2.blk = NilBlock
             THEN [kind |-> "panic", tail |-> g1.blk, target |-> g2.blk, cache |-> g2.cache]
             ELSE LockStep(g2.cache, g1.blk, g2.blk)

\* FindCommonAncestorWithTail recovering from a missing parent: the search
\* ends and the target it located is returned.
FindCommonAncestorRecovers(cache, tail, block) ==
    LET g1 == GetBlock(cache, block)
        g2 == IF g1.blk = NilBlock THEN GetBlock(g1.cache, ParentHash(block)) ELSE g1
    IN  IF g2.blk = NilBlock
        THEN [kind |-> "err", blk |-> NilBlock, cache |-> g2.cache]
        ELSE LET w1 == LevelTail(g2.cache, tail, g2.blk)
                 w2 == IF w1.kind = "ok" THEN LevelTarget(w1.cache, w1.tail, w1.target) ELSE w1
                 w3 == IF w2.kind = "ok" THEN LockStep(w2.cache, w2.tail, w2.target) ELSE w2
             IN  IF w3.kind = "ok"
                 THEN [kind |-> "ok", blk |-> w3.target, cache |-> w3.cache]
                 ELSE [kind |-> "ok", blk |-> g2.blk, cache |-> w3.cache]

\* FindCommonAncestorWithTail(block) against the tail pointer `tail`.
\* kind: "ok" (blk is the ancestor), "err" (block not located), "panic".
FindCommonAncestorWithTail(cache, tail, block) ==
    LET g1 == GetBlock(cache, block)
        g2 == IF g1.blk = NilBlock THEN GetBlock(g1.cache, ParentHash(block)) ELSE g1
    IN  IF g2.blk = NilBlock
        THEN [kind |-> "err", blk |-> NilBlock, cache |-> g2.cache]
        ELSE LET w1 == LevelTail(g2.cache, tail, g2.blk)
                 w2 == IF w1.kind = "ok" THEN LevelTarget(w1.cache, w1.tail, w1.target) ELSE w1
                 w3 == IF w2.kind = "ok" THEN LockStep(w2.cache, w2.tail, w2.target) ELSE w2
             IN  IF w3.kind = "ok"
                 THEN [kind |-> "ok", blk |-> w3.target, cache |-> w3.cache]
                 ELSE [kind |-> "panic", blk |-> NilBlock, cache |-> w3.cache]

\* ------------------------------------------------------------ traversal
RECURSIVE AncestorWalk(_, _, _)
\* getAncestorHash: number parent steps from block, stopping at genesis.
\* A missing parent is dereferenced by the next iteration or by block.Hash().
AncestorWalk(cache, block, number) ==
    IF block = NilBlock THEN [kind |-> "panic", blk |-> NilBlock, cache |-> cache]
    ELSE IF number = 0 THEN [kind |-> "ok", blk |-> block, cache |-> cache]
    ELSE IF CheckGenesisBlock(block) THEN AncestorWalk(cache, block, number - 1)
    ELSE LET g == GetBlock(cache, ParentHash(block))
         IN  AncestorWalk(g.cache, g.blk, number - 1)

getAncestorHash(cache, tail, number) == AncestorWalk(cache, tail, number)

\* hashToInt64: the last four hex digits of the hash, as a number.
hashToInt64(hash) == hash % HexSuffixRange

RECURSIVE FetchWalkNoGenesisCheck(_, _, _, _, _, _)
\* FetchWalk without the CheckGenesisBlock test: the walk runs past genesis
\* until GetBlock returns nil.
FetchWalkNoGenesisCheck(cache, n, block, curBlock, curIdx, queue) ==
    IF curBlock = NilBlock \/ curBlock = block
    THEN [kind |-> "ok", curIdx |-> curIdx, queue |-> queue, cache |-> cache]
    ELSE IF n = 0
    THEN [kind |-> "panic", curIdx |-> curIdx, queue |-> queue, cache |-> cache]
    ELSE LET idx == (curIdx + 1) % n
             g == GetBlock(cache, ParentHash(curBlock))
         IN  FetchWalkNoGenesisCheck(g.cache, n, block, g.blk, idx,
                                     [queue EXCEPT ![idx] = curBlock])

RECURSIVE FetchWalk(_, _, _, _, _, _)
\* The first loop of FetchDescendantInCanonicalChain: from the tail towards
\* genesis, keeping the visited blocks in a ring buffer of n slots.
FetchWalk(cache, n, block, curBlock, curIdx, queue) ==
    IF curBlock = NilBlock \/ curBlock = block
    THEN [kind |-> "ok", curIdx |-> curIdx, queue |-> queue, cache |-> cache]
    ELSE IF CheckGenesisBlock(curBlock)
    THEN [kind |-> "err", curIdx |-> curIdx, queue |-> queue, cache |-> cache]
    ELSE IF n = 0
    THEN [kind |-> "panic", curIdx |-> curIdx, queue |-> queue, cache |-> cache]
    ELSE LET idx == (curIdx + 1) % n
             g == GetBlock(cache, ParentHash(curBlock))
         IN  FetchWalk(g.cache, n, block, g.blk, idx, [queue EXCEPT ![idx] = curBlock])

RECURSIVE FetchCollect(_, _, _, _)
\* The second loop: for i := 0; curIdx >= 0 && i < n; i++ { append the
\* non-nil queue[curIdx]; curIdx = (curIdx + n - 1) % n }
FetchCollect(n, queue, curIdx, i) ==
    IF curIdx >= 0 /\ i < n
    THEN (IF queue[curIdx] # NilBlock THEN <<queue[curIdx]>> ELSE <<>>)
         \o FetchCollect(n, queue, (curIdx + n - 1) % n, i + 1)
    ELSE <<>>

\* FetchDescendantInCanonicalChain(n, block) against the tail pointer `tail`.
FetchDescendantInCanonicalChain(cache, tail, n, block) ==
    LET w == FetchWalk(cache, n, block, tail, 0 - 1, [i \in 0..(n - 1) |-> NilBlock])
    IN  IF w.kind = "ok"
        THEN [kind |-> "ok", list |-> FetchCollect(n, w.queue, w.curIdx, 0), cache |-> w.cache]
        ELSE [kind |-> w.kind, list |-> <<>>, cache |-> w.cache]

RECURSIVE DumpWalk(_, _, _)
\* Dump(count): the ancestors of the tail it prints, nearest first.
DumpWalk(cache, block, count) ==
    IF count = 0 THEN [kind |-> "ok", list |-> <<>>, cache |-> cache]
    ELSE IF CheckGenesisBlock(block) THEN DumpWalk(cache, block, count - 1)
    ELSE LET g == GetBlock(cache, ParentHash(block))
         IN  IF g.blk = NilBlock
             THEN [kind |-> "panic", list |-> <<>>, cache |-> g.cache]
             ELSE LET r == DumpWalk(g.cache, g.blk, count - 1)
                  IN  [kind |-> r.kind,
                       list |-> IF r.kind = "ok" THEN <<g.blk>> \o r.list ELSE <<>>,
                       cache |-> r.cache]

\* The transactions a block carries: every non-genesis block carries one,
\* named after the block.
BlockTransactions(b) == IF b = GenesisHash THEN {} ELSE {b}

\* block.GetTransaction(hash)
BlockGetTransaction(b, hash) == IF hash \in BlockTransactions(b) THEN hash ELSE NilBlock

\* ------------------------------------------------------------ admission
RECURSIVE PutBlocksKeepsGoing(_, _, _, _, _)
\* PutBlocks that notes a failed Put and goes on with the next block
\* instead of returning.
PutBlocksKeepsGoing(cache, sto, allBlocks, i, failAt) ==
    IF i > Len(allBlocks) THEN [err |-> failAt # 0, cache |-> cache, sto |-> sto]
    ELSE LET v == allBlocks[i]
             c2 == LruContainsOrAdd(cache, v, CacheCap)
         IN  PutBlocksKeepsGoing(c2, IF failAt = i THEN sto ELSE [sto EXCEPT ![v] = Serialize(v)],
                                 allBlocks, i + 1, failAt)

RECURSIVE PutBlocks(_, _, _, _, _)
\* The first loop of PutVerifiedNewBlocks from index i on: cache the block,
\* then store it; the store's Put of block number failAt fails (0: none).
PutBlocks(cache, sto, allBlocks, i, failAt) ==
    IF i > Len(allBlocks) THEN [err |-> FALSE, cache |-> cache, sto |-> sto]
    ELSE LET v == allBlocks[i]
             c2 == LruContainsOrAdd(cache, v, CacheCap)
         IN  IF failAt = i
             THEN [err |-> TRUE, cache |-> c2, sto |-> sto]
             ELSE PutBlocks(c2, [sto EXCEPT ![v] = Serialize(v)], allBlocks, i + 1, failAt)

RECURSIVE PutTails(_, _, _)
\* The second loop of PutVerifiedNewBlocks from index i on.
PutTails(detached, tailBlocks, i) ==
    IF i > Len(tailBlocks) THEN detached
    ELSE PutTails(LruContainsOrAdd(detached, tailBlocks[i], DetachedCap), tailBlocks, i + 1)

\* ------------------------------------------------------ state and inputs
\* branch: "none" until the call ends, then "forward" or "reorg".
\* wasDetached: newTail was a detached tip when the call began.
NoCall == [newTail |-> NilBlock, oldTail |-> NilBlock, ancestor |-> NilBlock,
           reverted |-> NilBlock, revertTimes |-> 0, branch |-> "none",
           wasDetached |-> FALSE]

\* An operation of the writer and how it ended: "ok", "err", "panic", or
\* "running".  A failed PutVerifiedNewBlocks also keeps its allBlocks and
\* the index of the block whose Put failed.
Result(op, kind) == [op |-> op, kind |-> kind, all |-> <<>>, fail |-> 0]

\* The block trees: every block's parent was made before it.
Trees == {f \in [NewBlocks -> Blocks] : \A b \in NewBlocks : f[b] < b}

SeqsUpTo(S, n) == UNION {[1..k -> S] : k \in 0..n}

\* The chain can resolve hash (GetBlock would not return nil).
Known(hash) == LruContains(cachedBlocks, hash) \/ LoadBlockFromStorage(storage, hash) # NilBlock

\* A verified batch: no block twice, and every block links to a block the
\* chain can resolve or to an earlier block of the batch.  A block may be
\* put again.  The tailBlocks of a call are tips among its allBlocks.
Verified(allBlocks) ==
    /\ \A i, j \in 1..Len(allBlocks) : i # j => allBlocks[i] # allBlocks[j]
    /\ \A i \in 1..Len(allBlocks) :
          \/ Known(ParentHash(allBlocks[i]))
          \/ \E j \in 1..(i - 1) : allBlocks[j] = ParentHash(allBlocks[i])

\* NewBlockChain on an empty store: genesis is created and stored, and
\* loadTailFromStorage stores it as the tail.
Init ==
    /\ parentOf \in Trees
    /\ storage = [b \in Blocks |-> IF b = GenesisHash THEN Serialize(GenesisHash) ELSE NoValue]
    /\ storedTail = GenesisHash
    /\ cachedBlocks = <<>>
    /\ detachedTailBlocks = <<>>
    /\ genesisBlock = GenesisHash
    /\ tailBlock = GenesisHash
    /\ pc = "idle"
    /\ st = NoCall
    /\ returned = <<>>
    /\ metrics = <<>>
    /\ last = Result("new", "ok")
    /\ failures = 0

\* ------------------------------------------------------------ operations
\* PutVerifiedNewBlocks(allBlocks, tailBlocks)
PutVerifiedNewBlocks(allBlocks, tailBlocks, failAt) ==
    LET p == PutBlocks(cachedBlocks, storage, allBlocks, 1, failAt)
    IN  /\ pc = "idle"
        /\ cachedBlocks' = p.cache
        /\ storage' = p.sto
        /\ detachedTailBlocks' = IF p.err THEN detachedTailBlocks
                                 ELSE PutTails(detachedTailBlocks, tailBlocks, 1)
        /\ last' = IF p.err
                    THEN [Result("admit", "err") EXCEPT !.all = allBlocks, !.fail = failAt]
                    ELSE Result("admit", "ok")
        /\ st' = NoCall
        /\ returned' = <<>>
        /\ metrics' = <<>>
        /\ failures' = IF p.err THEN failures + 1 ELSE failures
        /\ UNCHANGED <<parentOf, storedTail, genesisBlock, tailBlock, pc>>

\* SetTailBlock, lines 114-115: oldTail := bc.tailBlock; detached.Remove(newTail)
SetTailRemove(newTail) ==
    /\ pc = "idle"
    /\ st' = [NoCall EXCEPT !.newTail = newTail, !.oldTail = tailBlock,
                           !.wasDetached = LruContains(detachedTailBlocks, newTail)]
    /\ detachedTailBlocks' = LruRemove(detachedTailBlocks, newTail)
    /\ returned' = <<>>
    /\ metrics' = <<>>
    /\ pc' = "remove"
    /\ last' = Result("setTail", "running")
    /\ UNCHANGED <<parentOf, storage, storedTail, cachedBlocks, genesisBlock, tailBlock,
                   failures>>

\* SetTailBlock, line 116: bc.tailBlock = newTail
SetTailAssign ==
    /\ pc = "remove"
    /\ tailBlock' = st.newTail
    /\ pc' = "assign"
    /\ UNCHANGED <<parentOf, storage, storedTail, cachedBlocks, detachedTailBlocks,
                   genesisBlock, st, returned, metrics, last, failures>>

\* storeTailToStorage that does not write the tail key.
storeTailToStorageNoPut(block, ok) == storedTail

\* storeTailToStorage: bc.storage.Put(Tail, hash), the error dropped.
storeTailToStorage(block, ok) == IF ok THEN block ELSE storedTail

\* SetTailBlock, line 117: bc.storeTailToStorage(bc.tailBlock)
SetTailStore(ok) ==
    /\ pc = "assign"
    /\ storedTail' = storeTailToStorage(tailBlock, ok)
    /\ pc' = "store"
    /\ failures' = IF ok THEN failures ELSE failures + 1
    /\ UNCHANGED <<parentOf, storage, cachedBlocks, detachedTailBlocks,
                   genesisBlock, tailBlock, st, returned, metrics, last>>

\* SetTailFind searching the common ancestor of the new tail, not of the
\* old tail, with the tail.
SetTailFindFromNewTail ==
    LET f == FindCommonAncestorWithTail(cachedBlocks, tailBlock, st.newTail)
        a == getAncestorHash(f.cache, tailBlock, FingerprintDepth)
        height == <<"block_height", Height(st.newTail)>>
    IN  /\ pc = "store"
        /\ IF f.kind # "ok"
           THEN /\ pc' = "panic"
                /\ cachedBlocks' = f.cache
                /\ last' = Result("setTail", "panic")
                /\ UNCHANGED <<st, metrics>>
           ELSE IF f.blk = st.oldTail
           THEN IF a.kind # "ok"
                THEN /\ pc' = "panic"
                     /\ cachedBlocks' = a.cache
                     /\ metrics' = Append(metrics, height)
                     /\ last' = Result("setTail", "panic")
                     /\ UNCHANGED st
                ELSE /\ pc' = "idle"
                     /\ cachedBlocks' = a.cache
                     /\ metrics' = metrics \o <<height, <<"blocktail_hash", hashToInt64(a.blk)>>>>
                     /\ st' = [st EXCEPT !.ancestor = f.blk, !.branch = "forward"]
                     /\ last' = Result("setTail", "ok")
           ELSE /\ pc' = "revert"
                /\ cachedBlocks' = f.cache
                /\ st' = [st EXCEPT !.ancestor = f.blk, !.reverted = st.oldTail]
                /\ UNCHANGED <<metrics, last>>
        /\ UNCHANGED <<parentOf, storage, storedTail, detachedTailBlocks,
                       genesisBlock, tailBlock, returned, failures>>

\* SetTailBlock, lines 119-131: the ancestor search, and the forward branch.
\* The search's error is dropped, so a nil ancestor is dereferenced.
SetTailFind ==
    LET f == FindCommonAncestorWithTail(cachedBlocks, tailBlock, st.oldTail)
        a == getAncestorHash(f.cache, tailBlock, FingerprintDepth)
        height == <<"block_height", Height(st.newTail)>>
    IN  /\ pc = "store"
        /\ IF f.kind # "ok"
           THEN /\ pc' = "panic"
                /\ cachedBlocks' = f.cache
                /\ last' = Result("setTail", "panic")
                /\ UNCHANGED <<st, metrics>>
           ELSE IF f.blk = st.oldTail
           THEN IF a.kind # "ok"
                THEN /\ pc' = "panic"
                     /\ cachedBlocks' = a.cache
                     /\ metrics' = Append(metrics, height)
                     /\ last' = Result("setTail", "panic")
                     /\ UNCHANGED st
                ELSE /\ pc' = "idle"
                     /\ cachedBlocks' = a.cache
                     /\ metrics' = metrics \o <<height, <<"blocktail_hash", hashToInt64(a.blk)>>>>
                     /\ st' = [st EXCEPT !.ancestor = f.blk, !.branch = "forward"]
                     /\ last' = Result("setTail", "ok")
           ELSE /\ pc' = "revert"
                /\ cachedBlocks' = f.cache
                /\ st' = [st EXCEPT !.ancestor = f.blk, !.reverted = st.oldTail]
                /\ UNCHANGED <<metrics, last>>
        /\ UNCHANGED <<parentOf, storage, storedTail, detachedTailBlocks,
                       genesisBlock, tailBlock, returned, failures>>

\* The revert loop stepping to the parent before it returns transactions:
\* ReturnTransactions is called on the parent of each reverted block.
SetTailRevertParentFirst ==
    LET g == GetBlock(cachedBlocks, ParentHash(st.reverted))
    IN  /\ pc = "revert"
        /\ returned' = IF g.blk = NilBlock THEN returned ELSE Append(returned, g.blk)
        /\ cachedBlocks' = g.cache
        /\ st' = [st EXCEPT !.revertTimes = @ + 1, !.reverted = g.blk]
        /\ pc' = IF g.blk = NilBlock THEN "panic"
                 ELSE IF g.blk = st.ancestor THEN "report" ELSE "revert"
        /\ last' = IF g.blk = NilBlock THEN Result("setTail", "panic") ELSE last
        /\ UNCHANGED <<parentOf, storage, storedTail, detachedTailBlocks,
                       genesisBlock, tailBlock, metrics, failures>>

\* SetTailBlock, lines 133-140: one iteration of the revert loop.
SetTailRevert ==
    LET g == GetBlock(cachedBlocks, ParentHash(st.reverted))
    IN  /\ pc = "revert"
        /\ returned' = Append(returned, st.reverted)
        /\ cachedBlocks' = g.cache
        /\ st' = [st EXCEPT !.revertTimes = @ + 1, !.reverted = g.blk]
        /\ pc' = IF g.blk = NilBlock THEN "panic"
                 ELSE IF g.blk = st.ancestor THEN "report" ELSE "revert"
        /\ last' = IF g.blk = NilBlock THEN Result("setTail", "panic") ELSE last
        /\ UNCHANGED <<parentOf, storage, storedTail, detachedTailBlocks,
                       genesisBlock, tailBlock, metrics, failures>>

\* The report marking the revert meter with the count instead of with 1.
SetTailReportMarksCount ==
    /\ pc = "report"
    /\ metrics' = IF st.revertTimes > 0
                  THEN metrics \o <<<<"block_revert_count", st.revertTimes>>,
                                    <<"block_revert", st.revertTimes>>>>
                  ELSE metrics
    /\ pc' = "idle"
    /\ st' = [st EXCEPT !.branch = "reorg"]
    /\ last' = Result("setTail", "ok")
    /\ UNCHANGED <<parentOf, storage, storedTail, cachedBlocks, detachedTailBlocks,
                   genesisBlock, tailBlock, returned, failures>>

\* SetTailBlock, lines 141-146: the revert count and the revert event.
SetTailReport ==
    /\ pc = "report"
    /\ metrics' = IF st.revertTimes > 0
                  THEN metrics \o <<<<"block_revert_count", st.revertTimes>>, <<"block_revert", 1>>>>
                  ELSE metrics
    /\ pc' = "idle"
    /\ st' = [st EXCEPT !.branch = "reorg"]
    /\ last' = Result("setTail", "ok")
    /\ UNCHANGED <<parentOf, storage, storedTail, cachedBlocks, detachedTailBlocks,
                   genesisBlock, tailBlock, returned, failures>>

\* A query: it reads the chain state, touches the cache's recency order
\* and, on a panic, ends the process.  It may run while SetTailBlock does.
Query(cache, panicked) ==
    /\ pc \notin {"panic", "down"}
    /\ cachedBlocks' = cache
    /\ pc' = IF panicked THEN "panic" ELSE pc
    /\ UNCHANGED <<parentOf, storage, storedTail, detachedTailBlocks,
                   genesisBlock, tailBlock, st, returned, metrics, last, failures>>

\* bc.GetBlock(hash)
GetBlockOp(hash) ==
    LET g == GetBlock(cachedBlocks, hash)
    IN  Query(g.cache, FALSE)

\* bc.GetTransaction(hash): only the tail block is searched.
GetTransaction(hash) == BlockGetTransaction(tailBlock, hash)

\* A call of bc.GetTransaction(hash): it changes nothing.
GetTransactionOp(hash) == Query(cachedBlocks, FALSE)

\* bc.FindCommonAncestorWithTail(block)
FindCommonAncestorOp(block) ==
    LET f == FindCommonAncestorWithTail(cachedBlocks, tailBlock, block)
    IN  Query(f.cache, f.kind = "panic")

\* bc.FetchDescendantInCanonicalChain(n, block)
FetchDescendantOp(n, block) ==
    LET f == FetchDescendantInCanonicalChain(cachedBlocks, tailBlock, n, block)
    IN  Query(f.cache, f.kind = "panic")

\* getAncestorHash walking with bc.tailBlock itself instead of a local.
AncestorAtDepthOpMovesTail(number) ==
    LET a == getAncestorHash(cachedBlocks, tailBlock, number)
    IN  /\ pc \notin {"panic", "down"}
        /\ cachedBlocks' = a.cache
        /\ pc' = IF a.kind = "panic" THEN "panic" ELSE pc
        /\ tailBlock' = IF a.kind = "ok" THEN a.blk ELSE tailBlock
        /\ UNCHANGED <<parentOf, storage, storedTail, detachedTailBlocks,
                       genesisBlock, st, returned, metrics, last, failures>>

\* bc.getAncestorHash(number)
AncestorAtDepthOp(number) ==
    LET a == getAncestorHash(cachedBlocks, tailBlock, number)
    IN  Query(a.cache, a.kind = "panic")

\* bc.Dump(count)
DumpOp(count) ==
    LET d == DumpWalk(cachedBlocks, tailBlock, count)
    IN  Query(d.cache, d.kind = "panic")

\* The blocks the consensus handler can promote: those the chain holds.
CanPromote(b) == Known(b) \/ LruContains(detachedTailBlocks, b)

Next ==
    \/ \E allBlocks \in SeqsUpTo(NewBlocks, MaxBatch) :
       \E tailBlocks \in SeqsUpTo(SeqToSet(allBlocks), MaxTips) :
          /\ Verified(allBlocks)
          /\ \E failAt \in 0..Len(allBlocks) :
                /\ failAt # 0 => failures < MaxFailures
                /\ PutVerifiedNewBlocks(allBlocks, tailBlocks, failAt)
    \/ \E newTail \in Blocks : CanPromote(newTail) /\ SetTailRemove(newTail)
    \/ SetTailAssign
    \/ \E ok \in BOOLEAN : (~ok => failures < MaxFailures) /\ SetTailStore(ok)
    \/ SetTailFind
    \/ SetTailRevert
    \/ SetTailReport
    \/ \E hash \in Blocks : GetBlockOp(hash)
    \/ \E hash \in Blocks : GetTransactionOp(hash)
    \/ \E block \in Blocks : FindCommonAncestorOp(block)
    \/ \E n \in 0..MaxN, block \in Blocks : FetchDescendantOp(n, block)
    \/ \E number \in 0..MaxN : AncestorAtDepthOp(number)
    \/ \E count \in 0..MaxN : DumpOp(count)

Spec == Init /\ [][Next]_vars

\* ------------------------------------------- construction and restart
\* loadGenesisFromStorage: the stored genesis block, or a new genesis block
\* that is then stored; a failed Put is logged and the block still returned.
loadGenesisFromStorage(sto, ok) ==
    IF LoadBlockFromStorage(sto, GenesisHash) # NilBlock
    THEN [blk |-> GenesisHash, sto |-> sto, failed |-> 0]
    ELSE [blk |-> GenesisHash,
          sto |-> IF ok THEN [sto EXCEPT ![GenesisHash] = Serialize(GenesisHash)] ELSE sto,
          failed |-> IF ok THEN 0 ELSE 1]

\* loadTailFromStorage on store sto with tail pointer tl: without a tail key
\* genesis is loaded again, put under the tail key (the Put's error dropped)
\* and returned; with one, the block it names is loaded.
loadTailFromStorage(sto, tl, genOk, tailOk) ==
    IF tl = NoHash
    THEN LET g == loadGenesisFromStorage(sto, genOk)
         IN  [err |-> FALSE, blk |-> g.blk, sto |-> g.sto,
              tl |-> IF tailOk THEN g.blk ELSE tl,
              failed |-> g.failed + (IF tailOk THEN 0 ELSE 1)]
    ELSE LET b == LoadBlockFromStorage(sto, tl)
         IN  [err |-> b = NilBlock, blk |-> b, sto |-> sto, tl |-> tl, failed |-> 0]

\* NewBlockChain(chainID, storage) on the store as it stands: at start-up,
\* or after the process stopped at any point.  Both caches start empty.
\* firstOk, genOk, tailOk: whether the Puts it makes succeed.
NewBlockChain(firstOk, genOk, tailOk) ==
    LET g == loadGenesisFromStorage(storage, firstOk)
        t == loadTailFromStorage(g.sto, storedTail, genOk, tailOk)
    IN  /\ failures + g.failed + t.failed <= MaxFailures
        /\ (firstOk \/ g.failed = 1) /\ (genOk \/ t.failed >= 1) /\ (tailOk \/ t.failed >= 1)
        /\ storage' = t.sto
        /\ storedTail' = t.tl
        /\ cachedBlocks' = <<>>
        /\ detachedTailBlocks' = <<>>
        /\ genesisBlock' = IF t.err THEN NilBlock ELSE g.blk
        /\ tailBlock' = IF t.err THEN NilBlock ELSE t.blk
        /\ pc' = IF t.err THEN "down" ELSE "idle"
        /\ st' = NoCall
        /\ returned' = <<>>
        /\ metrics' = <<>>
        /\ last' = Result("new", IF t.err THEN "err" ELSE "ok")
        /\ failures' = failures + g.failed + t.failed
        /\ UNCHANGED parentOf

\* Before the first NewBlockChain: an empty store and no chain state.
InitStore ==
    /\ parentOf \in Trees
    /\ storage = [b \in Blocks |-> NoValue]
    /\ storedTail = NoHash
    /\ cachedBlocks = <<>>
    /\ detachedTailBlocks = <<>>
    /\ genesisBlock = NilBlock
    /\ tailBlock = NilBlock
    /\ pc = "down"
    /\ st = NoCall
    /\ returned = <<>>
    /\ metrics = <<>>
    /\ last = Result("none", "ok")
    /\ failures = 0

NextRestart ==
    \/ Next
    \/ \E firstOk, genOk, tailOk \in BOOLEAN : NewBlockChain(firstOk, genOk, tailOk)

SpecRestart == InitStore /\ [][NextRestart]_vars

\* ------------------------------------------- the block tree, for the claims
RECURSIVE Ancestors(_)
\* The parent chain of b in the block tree, b included.
Ancestors(b) == IF b = GenesisHash THEN {b} ELSE {b} \cup Ancestors(parentOf[b])

\* The highest block on the parent chains of both a and b.
ForkPoint(a, b) ==
    CHOOSE x \in Ancestors(a) \cap Ancestors(b) :
        \A y \in Ancestors(a) \cap Ancestors(b) : Height(y) <= Height(x)

RECURSIVE PathDown(_, _)
\* The blocks from b down its parent chain to anc, b first and anc excluded.
PathDown(b, anc) == IF b = anc THEN <<>> ELSE <<b>> \o PathDown(parentOf[b], anc)

\* Every block on the parent chain of b can be resolved by GetBlock.
Resolvable(b) == \A x \in Ancestors(b) : Known(x)

\* The SetTailBlock call recorded in st has returned.
SetTailDone == pc = "idle" /\ st.branch # "none"

\* The metric updates that report a reorganisation.
RevertMetrics == {"block_revert_count", "block_revert"}

ReportsRevert == \E i \in 1..Len(metrics) : metrics[i][1] \in RevertMetrics

\* -------------------------------------------------------------- claims
\* C1: when every parent link of b and of the tail resolves,
\* FindCommonAncestorWithTail(b) returns the highest block that is on the
\* parent chains of both b and the tail; called on the tail it returns the tail.
C1_CommonAncestorIsForkPoint ==
    \A b \in Blocks :
        (Resolvable(b) /\ Resolvable(tailBlock)) =>
            LET f == FindCommonAncestorWithTail(cachedBlocks, tailBlock, b)
            IN  /\ f.kind = "ok"
                /\ f.blk = ForkPoint(b, tailBlock)
                /\ (b = tailBlock => f.blk = tailBlock)

\* C1 witness: a block on a branch that left the tail's chain above genesis;
\* the search returns the fork point, which is neither the block nor the tail.
C1_Witness ==
    \E b \in Blocks :
        /\ Resolvable(b) /\ Resolvable(tailBlock)
        /\ FindCommonAncestorWithTail(cachedBlocks, tailBlock, b).blk = ForkPoint(b, tailBlock)
        /\ ForkPoint(b, tailBlock) \notin {b, tailBlock, GenesisHash}

\* C2: a SetTailBlock that returns after switching to a block that is not a
\* descendant of the old tail reports exactly one revert event and the revert
\* count height(oldTail) - height(common ancestor), which is the number of
\* blocks walked and is at least 1.
C2_RevertCountIsDivergenceDepth ==
    (SetTailDone /\ st.oldTail \notin Ancestors(st.newTail)) =>
        LET depth == Height(st.oldTail) - Height(ForkPoint(st.oldTail, st.newTail))
        IN  /\ st.branch = "reorg"
            /\ st.revertTimes = depth
            /\ st.revertTimes = Len(returned)
            /\ depth >= 1
            /\ metrics = <<<<"block_revert_count", depth>>, <<"block_revert", 1>>>>

\* C2 witness: a reorganisation that reverted two blocks has returned.
C2_Witness ==
    /\ SetTailDone
    /\ st.oldTail \notin Ancestors(st.newTail)
    /\ st.newTail \notin Ancestors(st.oldTail)
    /\ metrics = <<<<"block_revert_count", 2>>, <<"block_revert", 1>>>>

\* C3: a reorganising SetTailBlock calls ReturnTransactions exactly once for
\* each block from the old tail (included) down to the common ancestor
\* (excluded), and for no other block.
C3_ReturnsExactlyRevertedBlocks ==
    (SetTailDone /\ st.oldTail \notin Ancestors(st.newTail)) =>
        returned = PathDown(st.oldTail, ForkPoint(st.oldTail, st.newTail))

\* C3 witness: the scenario G -> A -> B with a competing branch from G; the
\* switch returned the transactions of B and A, and of nothing else.
C3_Witness ==
    /\ SetTailDone
    /\ Len(returned) = 2
    /\ returned[1] = st.oldTail
    /\ returned[2] = parentOf[st.oldTail]
    /\ ForkPoint(st.oldTail, st.newTail) = GenesisHash
    /\ st.newTail # GenesisHash

\* C4: a SetTailBlock whose new tail is the old tail or a descendant of it
\* reports no revert count and no revert event and returns no block's
\* transactions to the pool.
C4_ForwardNeverReverts ==
    (st.newTail # NilBlock /\ st.oldTail \in Ancestors(st.newTail)) =>
        /\ returned = <<>>
        /\ ~ReportsRevert

\* C4 witness: a SetTailBlock from a block above genesis to its child has
\* returned; it updated the height and the tail-hash gauges and nothing else.
C4_Witness ==
    /\ SetTailDone
    /\ st.branch = "forward"
    /\ st.oldTail # GenesisHash
    /\ st.newTail # st.oldTail
    /\ parentOf[st.newTail] = st.oldTail
    /\ tailBlock = st.newTail
    /\ Len(metrics) = 2
    /\ metrics[1] = <<"block_height", Height(st.newTail)>>
    /\ returned = <<>>

\* The block of the canonical chain (the tail's parent chain) at height h.
CanonicalAt(h) == CHOOSE x \in Ancestors(tailBlock) : Height(x) = h

Min(a, b) == IF a < b THEN a ELSE b

\* The parent walk from the tail resolves every block down to genesis.
WalkReachesGenesis == \A x \in Ancestors(tailBlock) \ {tailBlock} : Known(x)

\* C5: for n >= 1 and b on the canonical chain, L below the tail,
\* FetchDescendantInCanonicalChain(n, b) returns the canonical blocks at
\* heights height(b)+1 .. height(b)+min(n, L), in ascending height.
C5_WindowIsNearestToBlock ==
    \A n \in 1..MaxN, b \in Ancestors(tailBlock) :
        LET k == Min(n, Height(tailBlock) - Height(b))
            f == FetchDescendantInCanonicalChain(cachedBlocks, tailBlock, n, b)
        IN  /\ f.kind = "ok"
            /\ f.list = [i \in 1..k |-> CanonicalAt(Height(b) + i)]

\* C6: whenever the walk from the tail reaches genesis without meeting b,
\* FetchDescendantInCanonicalChain fails with its error and returns no
\* block; when b is the genesis block it does not fail.
C6_NotOnCanonicalChainFails ==
    \A n \in 0..MaxN, b \in Blocks :
        LET f == FetchDescendantInCanonicalChain(cachedBlocks, tailBlock, n, b)
        IN  (WalkReachesGenesis /\ (n >= 1 \/ tailBlock = GenesisHash)) =>
                /\ b \notin Ancestors(tailBlock) => (f.kind = "err" /\ f.list = <<>>)
                /\ b = GenesisHash => f.kind = "ok"

\* C6 witness: the tail is two blocks above genesis, its chain resolves, and
\* a stored block of another branch is asked for: the walk passes a
\* non-genesis block, reaches genesis and fails.
C6_Witness ==
    \E b \in NewBlocks :
        /\ Height(tailBlock) = 2
        /\ WalkReachesGenesis
        /\ Known(b)
        /\ b \notin Ancestors(tailBlock)
        /\ FetchDescendantInCanonicalChain(cachedBlocks, tailBlock, 1, b).kind = "err"
        /\ FetchDescendantInCanonicalChain(cachedBlocks, tailBlock, 1, GenesisHash).kind = "ok"

\* C7: after SetTailBlock either the in-memory tail and the stored tail
\* pointer both name newTail, or the call reported failure and the in-memory
\* tail is still oldTail.
C7_TailNotPastDurable ==
    SetTailDone =>
        \/ tailBlock = st.newTail /\ storedTail = st.newTail
        \/ last.kind = "err" /\ tailBlock = st.oldTail

\* C8: between the calls of PutVerifiedNewBlocks and SetTailBlock, the
\* current tail is not in the detached-tip set.
C8_TailNotDetached ==
    pc = "idle" => ~LruContains(detachedTailBlocks, tailBlock)

\* C9: the in-memory tail changes only in SetTailBlock's assignment and the
\* stored tail pointer only in SetTailBlock's Put; admission and the
\* queries change neither; nothing changes the genesis block.
C9_TailChangesOnlyInSetTail ==
    [][/\ tailBlock' # tailBlock => (pc = "remove" /\ pc' = "assign")
       /\ storedTail' # storedTail => (pc = "assign" /\ pc' = "store")
       /\ genesisBlock' = genesisBlock]_vars

\* C9 witness: after a tail switch away from genesis, an admission has run
\* and the tail and the stored tail pointer still name the promoted block.
C9_Witness ==
    /\ pc = "idle"
    /\ last.op = "admit"
    /\ tailBlock # GenesisHash
    /\ storedTail = tailBlock
    /\ cachedBlocks # <<>>

\* A PutVerifiedNewBlocks step in which a Put failed.
AdmitFailed == pc = "idle" /\ failures' = failures + 1

\* C10: when the Put of block i of allBlocks fails, PutVerifiedNewBlocks
\* returns the failure: the blocks before i are in the store, block i and
\* the blocks after it are not written, the blocks after i are not inserted
\* into the block cache, and no tip enters the detached-tip cache.
C10_AdmitStopsAtFailure ==
    [][AdmitFailed =>
        LET all == last'.all
            i == last'.fail
        IN  /\ last'.op = "admit" /\ last'.kind = "err"
            /\ i \in 1..Len(all)
            /\ \A j \in 1..(i - 1) : storage'[all[j]] = Serialize(all[j])
            /\ \A j \in i..Len(all) : storage'[all[j]] = storage[all[j]]
            /\ \A j \in (i + 1)..Len(all) :
                  LruContains(cachedBlocks', all[j]) => LruContains(cachedBlocks, all[j])
            /\ detachedTailBlocks' = detachedTailBlocks]_vars

\* C10 witness: the Put of the first of two new blocks failed; the second
\* block is neither stored nor cached.
C10_Witness ==
    /\ last.op = "admit" /\ last.kind = "err"
    /\ Len(last.all) = 2 /\ last.fail = 1
    /\ storage[last.all[1]] = NoValue
    /\ ~Known(last.all[2])
    /\ LruContains(cachedBlocks, last.all[1])

\* A step that is a NewBlockChain call.
Constructs == \E firstOk, genOk, tailOk \in BOOLEAN : NewBlockChain(firstOk, genOk, tailOk)

\* C11: NewBlockChain on a store without a tail key returns a chain whose
\* tail is the genesis block, and when it returns the store holds the
\* genesis hash under the tail key and the genesis block under its hash.
C11_ConstructionPersistsGenesisTail ==
    [][(Constructs /\ storedTail = NoHash) =>
          /\ pc' = "idle"
          /\ tailBlock' = GenesisHash
          /\ genesisBlock' = GenesisHash
          /\ storedTail' = GenesisHash
          /\ storage'[GenesisHash] = Serialize(GenesisHash)]_vars

\* The same with every Put of the call succeeding: this much the code ensures.
ConstructionWhenPutsSucceed ==
    [][(Constructs /\ storedTail = NoHash /\ failures' = failures) =>
          /\ pc' = "idle"
          /\ tailBlock' = GenesisHash
          /\ genesisBlock' = GenesisHash
          /\ storedTail' = GenesisHash
          /\ storage'[GenesisHash] = Serialize(GenesisHash)]_vars

\* SetTailBlock is between its first and its last statement: a reader that
\* runs now runs concurrently with it.
SetTailRunning == pc \in {"remove", "assign", "store", "revert", "report"}

\* C12: a reader running while SetTailBlock(newTail) runs sees either the
\* old state (tail and stored tail pointer name oldTail, newTail's
\* detached-tip membership as before the call) or the new state (tail and
\* stored tail pointer name newTail, newTail not a detached tip).
C12_NoTornRead ==
    SetTailRunning =>
        \/ /\ tailBlock = st.oldTail
           /\ storedTail = st.oldTail
           /\ LruContains(detachedTailBlocks, st.newTail) = st.wasDetached
        \/ /\ tailBlock = st.newTail
           /\ storedTail = st.newTail
           /\ ~LruContains(detachedTailBlocks, st.newTail)

\* C13: GetBlock(hash) returns the block when the cache or the store holds
\* it and nil otherwise, and changes no membership: the block cache holds
\* the same blocks afterwards (a block loaded on a miss is not inserted; a
\* miss leaves the cache as it was), and the detached-tip cache, the store,
\* the stored tail pointer and the tail are unchanged.
C13_GetBlockChangesNoMembership ==
    [][\A hash \in Blocks :
          GetBlockOp(hash) =>
              /\ GetBlock(cachedBlocks, hash).blk = (IF Known(hash) THEN hash ELSE NilBlock)
              /\ SeqToSet(cachedBlocks') = SeqToSet(cachedBlocks)
              /\ ~LruContains(cachedBlocks, hash) => cachedBlocks' = cachedBlocks
              /\ UNCHANGED <<detachedTailBlocks, storage, storedTail, tailBlock,
                             genesisBlock>>]_vars

\* C13 witness: a stored block has been evicted from the block cache, so
\* GetBlock loads it from the store; another block is unknown and GetBlock
\* returns nil for it; the detached-tip cache is not empty.
C13_Witness ==
    \E hash, unknown \in NewBlocks :
        /\ pc = "idle"
        /\ cachedBlocks # <<>>
        /\ ~LruContains(cachedBlocks, hash)
        /\ GetBlock(cachedBlocks, hash).blk = hash
        /\ GetBlock(cachedBlocks, unknown).blk = NilBlock
        /\ detachedTailBlocks # <<>>

\* C14: a block held by the store is held by it, unchanged, after every
\* step, and GetBlock(its hash) returns that block in the next state too,
\* whether or not the block cache still holds it.
C14_StoredBlocksStay ==
    [][\A b \in Blocks :
          storage[b] # NoValue =>
              /\ storage[b] = Serialize(b)
              /\ storage'[b] = storage[b]
              /\ (GetBlock(cachedBlocks, b).blk)' = b]_vars

\* C14 witness: a block stored by an admission has since been evicted from
\* the block cache, the tail has been switched and blocks admitted again,
\* and GetBlock still returns the block.
C14_Witness ==
    \E b \in NewBlocks :
        /\ pc = "idle"
        /\ last.op = "admit"
        /\ tailBlock \notin {GenesisHash, b}
        /\ storage[b] = Serialize(b)
        /\ ~LruContains(cachedBlocks, b)
        /\ GetBlock(cachedBlocks, b).blk = b

\* The block FindCommonAncestorWithTail(b) starts from: b when GetBlock
\* finds it, else its parent, else nil.
Located(b) ==
    IF Known(b) THEN b
    ELSE IF Known(ParentHash(b)) THEN ParentHash(b)
    ELSE NilBlock

\* The blocks a walk from x down to fork point fp must resolve: the parent
\* chain of x below x, down to fp.
WalkedFrom(x, fp) == {y \in Ancestors(x) \ {x} : Height(y) >= Height(fp)}

\* C15: when a block on either walk of FindCommonAncestorWithTail cannot
\* be resolved before the walks meet, the search ends in a panic; when it
\* returns, it returns the fork point of the block it started from and the
\* tail.  A SetTailBlock that reported a revert count walked the whole path
\* from the old tail to a common ancestor of the old and the new tail, and
\* the count is the length of that path.
C15_MissingParentAborts ==
    /\ \A b \in Blocks :
          Located(b) # NilBlock =>
              LET f == FindCommonAncestorWithTail(cachedBlocks, tailBlock, b)
                  fp == ForkPoint(Located(b), tailBlock)
                  walked == WalkedFrom(tailBlock, fp) \cup WalkedFrom(Located(b), fp)
              IN  /\ (\E y \in walked : ~Known(y)) => f.kind = "panic"
                  /\ f.kind = "ok" => f.blk = fp
                  /\ f.kind # "err"
    /\ (st.newTail # NilBlock /\ ReportsRevert) =>
          /\ st.ancestor \in Ancestors(st.oldTail) \cap Ancestors(st.newTail)
          /\ returned = PathDown(st.oldTail, st.ancestor)
          /\ metrics[1] = <<"block_revert_count", Len(returned)>>
    /\ (pc = "panic" /\ last = Result("setTail", "panic")) => ~ReportsRevert

\* C15 witness: SetTailBlock has panicked in its ancestor search, having
\* returned no transactions and reported nothing, and the walk from the
\* tail to a block the chain holds still meets the unresolvable parent.
C15_Witness ==
    /\ pc = "panic"
    /\ last = Result("setTail", "panic")
    /\ returned = <<>>
    /\ metrics = <<>>
    /\ \E b \in Blocks :
          /\ Located(b) = b
          /\ \E y \in WalkedFrom(tailBlock, ForkPoint(b, tailBlock)) : ~Known(y)
          /\ FindCommonAncestorWithTail(cachedBlocks, tailBlock, b).kind = "panic"

\* C16: in every state in which the running or finished SetTailBlock has
\* made a ReturnTransactions call or updated a revert metric, the stored
\* tail pointer names newTail.
C16_TailStoredBeforeBookkeeping ==
    (st.newTail # NilBlock /\ (returned # <<>> \/ ReportsRevert)) =>
        storedTail = st.newTail

\* C17: every block the block cache holds is in the store.
C17_CacheWithinStore ==
    \A b \in SeqToSet(cachedBlocks) : LoadBlockFromStorage(storage, b) = b

\* C18: NewBlockChain on the store left by completed PutVerifiedNewBlocks
\* and SetTailBlock calls in which every Put succeeded returns a chain, and
\* its tail and its genesis block are those of the chain before the restart.
C18_RestartRecoversTail ==
    [][(Constructs /\ pc = "idle" /\ failures = 0 /\ failures' = 0) =>
          /\ pc' = "idle"
          /\ last' = Result("new", "ok")
          /\ tailBlock' = tailBlock
          /\ genesisBlock' = genesisBlock
          /\ storedTail' = storedTail
          /\ storage' = storage]_vars

\* C18 witness: the chain has been constructed again, without any failed
\* Put so far, on a store whose tail pointer names a block two above
\* genesis; the caches are empty and the tail is that block.
C18_Witness ==
    /\ pc = "idle"
    /\ last = Result("new", "ok")
    /\ failures = 0
    /\ cachedBlocks = <<>>
    /\ tailBlock \in NewBlocks
    /\ Height(tailBlock) = 2
    /\ storedTail = tailBlock
    /\ genesisBlock = GenesisHash

\* C19: whenever FetchDescendantInCanonicalChain(n, b) returns without an
\* error, b is the tail or on the tail's parent chain, and the blocks
\* returned are the canonical blocks at heights height(b)+1, height(b)+2,
\* ... in that order; a walk that meets an unresolvable parent before it
\* meets b does not return a result.
C19_WindowOnlyOfCanonicalBlock ==
    \A n \in 0..MaxN, b \in Blocks :
        LET f == FetchDescendantInCanonicalChain(cachedBlocks, tailBlock, n, b)
        IN  f.kind = "ok" =>
                /\ b \in Ancestors(tailBlock)
                /\ \A y \in WalkedFrom(tailBlock, b) : Known(y)
                /\ Len(f.list) <= Height(tailBlock) - Height(b)
                /\ f.list = [i \in 1..Len(f.list) |-> CanonicalAt(Height(b) + i)]

\* C20: for every block b on the canonical chain, the tail or a strict
\* ancestor of it, FetchDescendantInCanonicalChain(0, b) returns the empty
\* list and does not panic.
C20_EmptyWindowNeverPanics ==
    \A b \in Ancestors(tailBlock) :
        LET f == FetchDescendantInCanonicalChain(cachedBlocks, tailBlock, 0, b)
        IN  f.kind = "ok" /\ f.list = <<>>

====
